---- MODULE Spec2Model ----
(***************************************************************************)
(* A model of data.py: the FRED collection loop (collect_data), the        *)
(* quarterly cleaning policy (clean_quarterly_data) and the preparation    *)
(* pipeline (prepare_data).                                                *)
(*                                                                         *)
(* Three specifications share the variables; each pins the variables of    *)
(* the other two functions to their idle values.                           *)
(*   SpecCollect  collect_data(series_map)                                 *)
(*   SpecClean    clean_quarterly_data(df, col_thresh), statement by       *)
(*                statement, followed by a second call on its own result   *)
(*   SpecPrepare  prepare_data(csv_path, test_size, batch_size)            *)
(*                                                                         *)
(* Fractions (col_thresh, test_size) are pairs <<p, q>> with q > 0 that     *)
(* stand for p/q; the arithmetic on them is exact.                         *)
(***************************************************************************)
EXTENDS Integers, Sequences, FiniteSets, TLC

VARIABLES
    \* collect_data
    series_map,      \* the catalog: a sequence of categories, each a sequence of series ids
    pos,             \* number of catalog entries the nested loop has gone through
    df_columns,      \* the columns of the panel df, in insertion order
    events,          \* what the loop did so far: requests (with outcome) and sleeps
    pcC,             \* "idle" | "loop" | "returned"
    \* clean_quarterly_data
    clean_in,        \* the argument df
    col_thresh,      \* the argument col_thresh, <<p, q>>
    clean_df,        \* the local clean_df
    pcL,             \* "idle" | "copy" | "fill" | "dropna" | "select" | "returned" | "again"
    filled_df,       \* history: clean_df as it was right after ffill().bfill()
    again_df,        \* the result of a second call on the first call's result
    \* prepare_data
    csv_df,          \* what pd.read_csv(csv_path) yields
    test_size,       \* the argument test_size, <<p, q>>
    batch_size,      \* the argument batch_size
    pcP,             \* "idle" | "start" | "loaded" | "cleaned" | "scaled" | "split"
                     \* | "datasets" | "returned" | "raised"
    feature_names,   \* df.columns.tolist()
    cleaned_df,      \* the cleaned panel
    scaled_data,     \* the rows of the scaled array (by row label)
    split_idx,       \* the local split_idx
    train_data,      \* scaled_data[:split_idx]
    test_data,       \* scaled_data[split_idx:]
    error            \* the exception that ended the call, "" if none

collectVars == <<series_map, pos, df_columns, events, pcC>>
cleanVars   == <<clean_in, col_thresh, clean_df, pcL, filled_df, again_df>>
prepareVars == <<csv_df, test_size, batch_size, pcP, feature_names, cleaned_df,
                 scaled_data, split_idx, train_data, test_data, error>>
vars        == <<collectVars, cleanVars, prepareVars>>

----------------------------------------------------------------------------
(* Bounds of the model *)

MaxCategories == 2
MaxSeries == 2
MaxRows == 3

----------------------------------------------------------------------------
(* Generic helpers *)

Range(s) == {s[i] : i \in 1..Len(s)}

SeqsUpTo(S, n) == UNION {[1..m -> S] : m \in 0..n}

Injective(s) == \A i, j \in 1..Len(s) : s[i] = s[j] => i = j

RECURSIVE Concat(_)
Concat(ss) == IF ss = <<>> THEN <<>> ELSE Head(ss) \o Concat(Tail(ss))

SelectIdx(s, keep) ==
    LET F[i \in 0..Len(s)] ==
            IF i = 0 THEN <<>>
            ELSE IF i \in keep THEN Append(F[i - 1], s[i]) ELSE F[i - 1]
    IN  F[Len(s)]

----------------------------------------------------------------------------
(* Panels (pandas DataFrames read from a delimited file)                   *)
(*   index   : the row labels, in order                                    *)
(*   columns : the column names, in order                                  *)
(*   dtype   : column name -> "float64" | "object"                         *)
(*   data    : column name -> the column's cells, in row order             *)

NaN == "NaN"
NumberValues == {"1.0", "2.0"}
TextValues == {"Q1"}
ColumnNames == <<"DATE", "Real_GDP">>

IsNa(v) == v = NaN

\* read_csv's type inference: a column holding text is an object column,
\* any other column (numbers and blanks, or blanks only) is float64.
InferDtype(cells) ==
    IF \E i \in 1..Len(cells) : cells[i] \in TextValues THEN "object" ELSE "float64"

ColumnCells(n, numbers) ==
    [1..n -> numbers \cup {NaN}] \cup [1..n -> TextValues \cup {NaN}]

MakePanel(n, present, cells) ==
    [index   |-> [i \in 1..n |-> i],
     columns |-> SelectIdx(ColumnNames, {i \in 1..Len(ColumnNames) : ColumnNames[i] \in present}),
     dtype   |-> [c \in present |-> InferDtype(cells[c])],
     data    |-> [c \in present |-> cells[c]]]

Panels(maxRows, numbers) ==
    UNION { UNION { { MakePanel(n, present, cells) :
                        cells \in [present -> ColumnCells(n, numbers)] }
                    : present \in SUBSET Range(ColumnNames) }
            : n \in 0..maxRows }

EmptyFrame == [index |-> <<>>, columns |-> <<>>, dtype |-> <<>>, data |-> <<>>]

RowCount(df) == Len(df.index)
ColCount(df) == Len(df.columns)

----------------------------------------------------------------------------
(* clean_quarterly_data, statement by statement *)

Fractions == {<<-1, 2>>, <<0, 1>>, <<1, 3>>, <<1, 2>>, <<1, 1>>}

MissingCount(cells) == Cardinality({i \in 1..Len(cells) : IsNa(cells[i])})

\* Variant: the test is inclusive (>=) rather than strict.
ExceedsThreshInclusive(cells, thresh) ==
    /\ Len(cells) > 0
    /\ MissingCount(cells) * thresh[2] >= thresh[1] * Len(cells)

\* Variant: the fraction of present cells (notna) is tested.
ExceedsThreshPresent(cells, thresh) ==
    /\ Len(cells) > 0
    /\ (Len(cells) - MissingCount(cells)) * thresh[2] > thresh[1] * Len(cells)

\* clean_df[col].isna().mean() > col_thresh.  The mean of an empty column is
\* NaN, and NaN > x is False.
ExceedsThresh(cells, thresh) ==
    /\ Len(cells) > 0
    /\ MissingCount(cells) * thresh[2] > thresh[1] * Len(cells)

DropCols(df, thresh) == {c \in Range(df.columns) : ExceedsThresh(df.data[c], thresh)}

KeepColumns(df, keep) ==
    [index   |-> df.index,
     columns |-> SelectIdx(df.columns, {i \in 1..Len(df.columns) : df.columns[i] \in keep}),
     dtype   |-> [c \in keep |-> df.dtype[c]],
     data    |-> [c \in keep |-> df.data[c]]]

DropColumns(df, drop) == KeepColumns(df, Range(df.columns) \ drop)

\* Series.ffill: walk down the column carrying the last valid cell.
FFillCells(cells) ==
    LET F[i \in 0..Len(cells)] ==
            IF i = 0 THEN <<>>
            ELSE IF ~IsNa(cells[i]) THEN Append(F[i - 1], cells[i])
            ELSE IF i = 1 THEN Append(F[i - 1], NaN)
            ELSE Append(F[i - 1], F[i - 1][i - 1])
    IN  F[Len(cells)]

Reverse(s) == [i \in 1..Len(s) |-> s[Len(s) + 1 - i]]

\* Variant: no backward fill.
BFillCellsOmitted(cells) == cells

\* Series.bfill: the same walk from the last row up.
BFillCells(cells) == Reverse(FFillCells(Reverse(cells)))

FFill(df) == [df EXCEPT !.data = [c \in DOMAIN df.data |-> FFillCells(df.data[c])]]
BFill(df) == [df EXCEPT !.data = [c \in DOMAIN df.data |-> BFillCells(df.data[c])]]

\* dropna(how='any'): keep the rows with no missing cell in any column.
KeepRow(df, i) == \A c \in Range(df.columns) : ~IsNa(df.data[c][i])

\* Variant: dropna(how='all'), which keeps a row with any present cell.
DropNaAll(df) ==
    LET keep == {i \in 1..RowCount(df) :
                    \E c \in Range(df.columns) : ~IsNa(df.data[c][i])}
    IN  [df EXCEPT !.index = SelectIdx(df.index, keep),
                   !.data  = [c \in DOMAIN df.data |-> SelectIdx(df.data[c], keep)]]

DropNa(df) ==
    LET keep == {i \in 1..RowCount(df) : KeepRow(df, i)}
    IN  [df EXCEPT !.index = SelectIdx(df.index, keep),
                   !.data  = [c \in DOMAIN df.data |-> SelectIdx(df.data[c], keep)]]

\* select_dtypes(include=["number"]) and the projection on its columns.
NumericCols(df) == {c \in Range(df.columns) : df.dtype[c] = "float64"}

SelectNumeric(df) == KeepColumns(df, NumericCols(df))

clean_quarterly_data(df, thresh) ==
    SelectNumeric(DropNa(BFill(FFill(DropColumns(df, DropCols(df, thresh))))))

----------------------------------------------------------------------------
(* prepare_data helpers *)

DefaultColThresh == <<3, 10>>

TestSizes == {<<1, 5>>, <<1, 2>>, <<4, 5>>, <<0, 1>>, <<3, 2>>}
BatchSizes == {0, 2}

\* int(x) for x = a/b, b > 0: truncation toward zero.
IntTrunc(a, b) == IF a >= 0 THEN a \div b ELSE -((-a) \div b)

\* Variant: int(test_size * len(scaled_data)).
SplitIndexOfTest(n, ts) == IntTrunc(ts[1] * n, ts[2])

\* int((1 - test_size) * len(scaled_data))
SplitIndex(n, ts) == IntTrunc((ts[2] - ts[1]) * n, ts[2])

\* The position a slice bound k denotes in a sequence of n items.
SliceBound(k, n) ==
    IF k < 0 THEN (IF k + n < 0 THEN 0 ELSE k + n)
    ELSE IF k > n THEN n ELSE k

\* s[:k] and s[k:]
SliceTo(s, k) == SubSeq(s, 1, SliceBound(k, Len(s)))
SliceFrom(s, k) == SubSeq(s, SliceBound(k, Len(s)) + 1, Len(s))

----------------------------------------------------------------------------
(* collect_data helpers *)

SeriesIds == {"GDPC1", "PCE", "UNRATE", "PAYEMS"}

DisplayName(id) ==
    CASE id = "GDPC1"  -> "Real_GDP"
      [] id = "PCE"    -> "Personal_Consumption"
      [] id = "UNRATE" -> "Unemployment_Rate"
      [] id = "PAYEMS" -> "Nonfarm_Payrolls"

\* The catalogs: identifiers are unique across the catalog, as in series_map.
Catalogs ==
    {m \in SeqsUpTo({c \in SeqsUpTo(SeriesIds, MaxSeries) : Injective(c)}, MaxCategories) :
        Injective(Concat(m))}

\* The order in which the nested loops go through the catalog.
Entries(m) == Concat(m)

\* df[series_name] = series
SetColumn(cols, name) == IF name \in Range(cols) THEN cols ELSE Append(cols, name)

Request(id, ok) == [ev |-> "request", id |-> id, ok |-> ok]
Sleep == [ev |-> "sleep", id |-> "", ok |-> TRUE]

----------------------------------------------------------------------------
(* Idle values: what a specification gives the variables of the others *)

CollectIdle ==
    /\ series_map = <<>>
    /\ pos = 0
    /\ df_columns = <<>>
    /\ events = <<>>
    /\ pcC = "idle"

CleanIdle ==
    /\ clean_in = EmptyFrame
    /\ col_thresh = DefaultColThresh
    /\ clean_df = EmptyFrame
    /\ pcL = "idle"
    /\ filled_df = EmptyFrame
    /\ again_df = EmptyFrame

PrepareIdle ==
    /\ csv_df = EmptyFrame
    /\ test_size = <<1, 5>>
    /\ batch_size = 32
    /\ pcP = "idle"
    /\ feature_names = <<>>
    /\ cleaned_df = EmptyFrame
    /\ scaled_data = <<>>
    /\ split_idx = 0
    /\ train_data = <<>>
    /\ test_data = <<>>
    /\ error = ""

----------------------------------------------------------------------------
(* collect_data *)

InitCollect ==
    /\ series_map \in Catalogs
    /\ pos = 0
    /\ df_columns = <<>>
    /\ events = <<>>
    /\ pcC = "loop"
    /\ CleanIdle
    /\ PrepareIdle

\* One iteration whose request succeeds: the column is set, then the sleep.
FetchSuccess ==
    /\ pcC = "loop"
    /\ pos < Len(Entries(series_map))
    /\ LET id == Entries(series_map)[pos + 1] IN
        /\ df_columns' = SetColumn(df_columns, DisplayName(id))
        /\ events' = events \o <<Request(id, TRUE), Sleep>>
    /\ pos' = pos + 1
    /\ UNCHANGED <<series_map, pcC, cleanVars, prepareVars>>

\* Variant: the exception is caught outside the loops and ends them.
FetchFailureAborts ==
    /\ pcC = "loop"
    /\ pos < Len(Entries(series_map))
    /\ LET id == Entries(series_map)[pos + 1] IN
        events' = Append(events, Request(id, FALSE))
    /\ pos' = pos + 1
    /\ pcC' = "returned"
    /\ UNCHANGED <<series_map, df_columns, cleanVars, prepareVars>>

\* One iteration whose request raises: the except clause prints and the
\* loop goes on to the next entry.
FetchFailure ==
    /\ pcC = "loop"
    /\ pos < Len(Entries(series_map))
    /\ LET id == Entries(series_map)[pos + 1] IN
        events' = Append(events, Request(id, FALSE))
    /\ pos' = pos + 1
    /\ UNCHANGED <<series_map, df_columns, pcC, cleanVars, prepareVars>>

CollectReturn ==
    /\ pcC = "loop"
    /\ pos = Len(Entries(series_map))
    /\ pcC' = "returned"
    /\ UNCHANGED <<series_map, pos, df_columns, events, cleanVars, prepareVars>>

NextCollect == FetchSuccess \/ FetchFailure \/ CollectReturn

SpecCollect == InitCollect /\ [][NextCollect]_vars

----------------------------------------------------------------------------
(* clean_quarterly_data *)

InitClean ==
    /\ clean_in \in Panels(MaxRows, NumberValues)
    /\ col_thresh \in Fractions
    /\ clean_df = clean_in
    /\ pcL = "copy"
    /\ filled_df = EmptyFrame
    /\ again_df = EmptyFrame
    /\ CollectIdle
    /\ PrepareIdle

CleanDropCols ==
    /\ pcL = "copy"
    /\ clean_df' = DropColumns(clean_in, DropCols(clean_in, col_thresh))
    /\ pcL' = "fill"
    /\ UNCHANGED <<clean_in, col_thresh, filled_df, again_df, collectVars, prepareVars>>

CleanFill ==
    /\ pcL = "fill"
    /\ clean_df' = BFill(FFill(clean_df))
    /\ filled_df' = clean_df'
    /\ pcL' = "dropna"
    /\ UNCHANGED <<clean_in, col_thresh, again_df, collectVars, prepareVars>>

CleanDropNa ==
    /\ pcL = "dropna"
    /\ clean_df' = DropNa(clean_df)
    /\ pcL' = "select"
    /\ UNCHANGED <<clean_in, col_thresh, filled_df, again_df, collectVars, prepareVars>>

CleanSelectNumeric ==
    /\ pcL = "select"
    /\ clean_df' = SelectNumeric(clean_df)
    /\ pcL' = "returned"
    /\ UNCHANGED <<clean_in, col_thresh, filled_df, again_df, collectVars, prepareVars>>

\* A second call, on the table the first call returned.
CleanAgain ==
    /\ pcL = "returned"
    /\ again_df' = clean_quarterly_data(clean_df, col_thresh)
    /\ pcL' = "again"
    /\ UNCHANGED <<clean_in, col_thresh, clean_df, filled_df, collectVars, prepareVars>>

NextClean ==
    CleanDropCols \/ CleanFill \/ CleanDropNa \/ CleanSelectNumeric \/ CleanAgain

SpecClean == InitClean /\ [][NextClean]_vars

----------------------------------------------------------------------------
(* prepare_data *)

InitPrepare ==
    /\ csv_df \in Panels(MaxRows, {"1.0"})
    /\ test_size \in TestSizes
    /\ batch_size \in BatchSizes
    /\ pcP = "start"
    /\ feature_names = <<>>
    /\ cleaned_df = EmptyFrame
    /\ scaled_data = <<>>
    /\ split_idx = 0
    /\ train_data = <<>>
    /\ test_data = <<>>
    /\ error = ""
    /\ CollectIdle
    /\ CleanIdle

PrepareLoad ==
    /\ pcP = "start"
    /\ feature_names' = csv_df.columns
    /\ pcP' = "loaded"
    /\ UNCHANGED <<csv_df, test_size, batch_size, cleaned_df, scaled_data, split_idx,
                   train_data, test_data, error, collectVars, cleanVars>>

PrepareClean ==
    /\ pcP = "loaded"
    /\ cleaned_df' = clean_quarterly_data(csv_df, DefaultColThresh)
    /\ pcP' = "cleaned"
    /\ UNCHANGED <<csv_df, test_size, batch_size, feature_names, scaled_data, split_idx,
                   train_data, test_data, error, collectVars, cleanVars>>

\* StandardScaler().fit_transform keeps the rows and their order; it
\* raises ValueError on an array with no row or no column.
PrepareScale ==
    /\ pcP = "cleaned"
    /\ IF RowCount(cleaned_df) = 0 \/ ColCount(cleaned_df) = 0
       THEN /\ error' = "ValueError"
            /\ pcP' = "raised"
            /\ UNCHANGED scaled_data
       ELSE /\ scaled_data' = cleaned_df.index
            /\ pcP' = "scaled"
            /\ UNCHANGED error
    /\ UNCHANGED <<csv_df, test_size, batch_size, feature_names, cleaned_df, split_idx,
                   train_data, test_data, collectVars, cleanVars>>

PrepareSplit ==
    /\ pcP = "scaled"
    /\ split_idx' = SplitIndex(Len(scaled_data), test_size)
    /\ train_data' = SliceTo(scaled_data, split_idx')
    /\ test_data' = SliceFrom(scaled_data, split_idx')
    /\ pcP' = "split"
    /\ UNCHANGED <<csv_df, test_size, batch_size, feature_names, cleaned_df, scaled_data,
                   error, collectVars, cleanVars>>

\* EconomicDataset(train_data), EconomicDataset(test_data)
PrepareDatasets ==
    /\ pcP = "split"
    /\ pcP' = "datasets"
    /\ UNCHANGED <<csv_df, test_size, batch_size, feature_names, cleaned_df, scaled_data,
                   split_idx, train_data, test_data, error, collectVars, cleanVars>>

\* The two DataLoaders, the prints and the return.  DataLoader raises
\* ValueError for a batch_size that is not positive.
PrepareLoaders ==
    /\ pcP = "datasets"
    /\ IF batch_size <= 0
       THEN error' = "ValueError" /\ pcP' = "raised"
       ELSE error' = error /\ pcP' = "returned"
    /\ UNCHANGED <<csv_df, test_size, batch_size, feature_names, cleaned_df, scaled_data,
                   split_idx, train_data, test_data, collectVars, cleanVars>>

\* DataLoader(shuffle=True) over an empty dataset: the random sampler of
\* some torch releases rejects a dataset of length 0.
PrepareLoadersEmptyTrain ==
    /\ pcP = "datasets"
    /\ train_data = <<>>
    /\ error' = "ValueError"
    /\ pcP' = "raised"
    /\ UNCHANGED <<csv_df, test_size, batch_size, feature_names, cleaned_df, scaled_data,
                   split_idx, train_data, test_data, collectVars, cleanVars>>

NextPrepare ==
    \/ PrepareLoad
    \/ PrepareClean
    \/ PrepareScale
    \/ PrepareSplit
    \/ PrepareDatasets
    \/ PrepareLoaders
    \/ PrepareLoadersEmptyTrain

SpecPrepare == InitPrepare /\ [][NextPrepare]_vars

----------------------------------------------------------------------------
(* Properties of collect_data, under SpecCollect *)

RequestEvents == SelectSeq(events, LAMBDA e : e.ev = "request")
RequestedIds == [i \in 1..Len(RequestEvents) |-> RequestEvents[i].id]
SucceededIds == {e.id : e \in {r \in Range(events) : r.ev = "request" /\ r.ok}}
FailedIds == {e.id : e \in {r \in Range(events) : r.ev = "request" /\ ~r.ok}}

\* C1: when collect_data returns, one request was issued for every catalog
\* entry, in catalog order, whatever requests failed, and the panel's columns
\* are exactly the display names of the series whose request succeeded, one
\* column each.
C1_FailureIsolation ==
    pcC = "returned" =>
        /\ RequestedIds = Entries(series_map)
        /\ Range(df_columns) = {DisplayName(id) : id \in SucceededIds}
        /\ Injective(df_columns)
        /\ \A id \in FailedIds : DisplayName(id) \notin Range(df_columns)

\* A run that returned after a failed request followed by a successful one.
C1_Witness ==
    /\ pcC = "returned"
    /\ \E i, j \in 1..Len(RequestEvents) :
          i < j /\ ~RequestEvents[i].ok /\ RequestEvents[j].ok
    /\ df_columns # <<>>

\* C2: between any two consecutive requests there is a pause, also when the
\* earlier request failed: no request is directly followed by a request.
C2_PauseAfterEveryRequest ==
    \A i \in 1..(Len(events) - 1) :
        events[i].ev = "request" => events[i + 1].ev = "sleep"

----------------------------------------------------------------------------
(* Properties of clean_quarterly_data, under SpecClean *)

IsSubsequence(s, t) ==
    \E keep \in SUBSET (1..Len(t)) : s = SelectIdx(t, keep)

\* C3: the returned table has no missing cell and only numeric columns, and
\* its rows are rows of the input, in the input's order.
C3_CleanOutput ==
    pcL = "returned" =>
        /\ \A c \in Range(clean_df.columns) :
              /\ clean_df.dtype[c] = "float64"
              /\ Len(clean_df.data[c]) = RowCount(clean_df)
              /\ \A i \in 1..RowCount(clean_df) : clean_df.data[c][i] \in NumberValues
        /\ IsSubsequence(clean_df.index, clean_in.index)
        /\ \A c \in Range(clean_df.columns) : \A i \in 1..RowCount(clean_df) :
              ~IsNa(clean_in.data[c][clean_df.index[i]]) =>
                  clean_df.data[c][i] = clean_in.data[c][clean_df.index[i]]

\* A call that returned a non-empty table from an input with a missing cell
\* in a retained column and with a text column.
C3_Witness ==
    /\ pcL = "returned"
    /\ RowCount(clean_df) > 0
    /\ \E c \in Range(clean_df.columns) : \E i \in 1..RowCount(clean_in) :
          IsNa(clean_in.data[c][i])
    /\ \E c \in Range(clean_in.columns) : clean_in.dtype[c] = "object"

Missing(df, c) == Len(SelectSeq(df.data[c], IsNa))

\* C4: after column pruning, a column of the input is gone if and only if its
\* missing count over the row count is strictly above col_thresh = p/q, the
\* count taken on the input; at equality the column is kept.  With 10 rows
\* and 0.3, 3 missing cells keep the column and 4 drop it.
C4_StrictThreshold ==
    /\ pcL = "fill" =>
          \A c \in Range(clean_in.columns) :
              c \notin Range(clean_df.columns)
                  <=> /\ RowCount(clean_in) > 0
                      /\ Missing(clean_in, c) * col_thresh[2]
                            > col_thresh[1] * RowCount(clean_in)
    /\ ~ExceedsThresh([i \in 1..10 |-> IF i <= 3 THEN NaN ELSE "1.0"], <<3, 10>>)
    /\ ExceedsThresh([i \in 1..10 |-> IF i <= 4 THEN NaN ELSE "1.0"], <<3, 10>>)

\* Pruning kept a column whose missing fraction equals the threshold and
\* dropped another.
C4_Witness ==
    /\ pcL = "fill"
    /\ \E c \in Range(clean_df.columns) :
          /\ Missing(clean_in, c) > 0
          /\ Missing(clean_in, c) * col_thresh[2] = col_thresh[1] * RowCount(clean_in)
    /\ \E c \in Range(clean_in.columns) : c \notin Range(clean_df.columns)

\* C9: cleaning the table a call returned, with the same threshold, returns
\* that table: same rows, columns, types and values.
C9_Idempotent == pcL = "again" => again_df = clean_df

\* A second call on a non-empty result that differs from the first input.
C9_Witness ==
    /\ pcL = "again"
    /\ RowCount(clean_df) > 0
    /\ ColCount(clean_df) > 0
    /\ clean_df.data # clean_in.data

ValidAt(cells) == {j \in 1..Len(cells) : ~IsNa(cells[j])}
SetMax(S) == CHOOSE x \in S : \A y \in S : y <= x
SetMin(S) == CHOOSE x \in S : \A y \in S : x <= y

\* C10: after ffill().bfill(), a retained column that had a valid cell in the
\* input has no missing cell; each cell holds the last valid input cell at or
\* before it if there is one, else the first valid input cell after it.  Row
\* pruning then removes a row only if some retained column is all missing.
C10_FillClosesGaps ==
    /\ pcL \in {"dropna", "select"} =>
          \A c \in Range(filled_df.columns) :
              LET in == clean_in.data[c]
                  valid == ValidAt(in)
              IN  valid # {} =>
                      \A i \in 1..Len(in) :
                          LET before == {j \in valid : j <= i}
                          IN  /\ ~IsNa(filled_df.data[c][i])
                              /\ filled_df.data[c][i] =
                                    IF before # {} THEN in[SetMax(before)]
                                    ELSE in[SetMin(valid)]
    /\ pcL = "select" =>
          (RowCount(clean_df) < RowCount(filled_df) =>
              \E c \in Range(filled_df.columns) : ValidAt(clean_in.data[c]) = {})

\* The fill closed a leading and a trailing gap of a retained column.
C10_Witness ==
    /\ pcL = "select"
    /\ \E c \in Range(filled_df.columns) :
          LET in == clean_in.data[c] IN
              /\ Len(in) >= 3
              /\ IsNa(in[1])
              /\ IsNa(in[Len(in)])
              /\ ValidAt(in) # {}
    /\ RowCount(clean_df) = RowCount(clean_in)

----------------------------------------------------------------------------
(* Properties of prepare_data, under SpecPrepare *)

ValidTestSize == 0 < test_size[1] /\ test_size[1] < test_size[2]
ValidConfig == batch_size > 0 /\ ValidTestSize
AfterSplit == pcP \in {"split", "datasets", "returned"}

C6_DegenerateSplitRejected ==
    (ValidConfig /\ pcP \in {"datasets", "returned"}) =>
        (0 < split_idx /\ split_idx < Len(scaled_data))

PanelIsEmpty(df) == RowCount(df) = 0 \/ ColCount(df) = 0

\* C7: a cleaning that leaves no row or no column ends the call in
\* EmptyPanelError; the call never holds an empty cleaned panel otherwise.
C7_EmptyPanelRaised ==
    (pcP \notin {"idle", "start", "loaded"} /\ PanelIsEmpty(cleaned_df)) =>
        (pcP = "raised" /\ error = "EmptyPanelError")

\* C8: with batch_size <= 0 or test_size outside (0,1), the call does nothing
\* but end in InvalidConfigError: no load, cleaning, scaling, split, dataset,
\* loader or result.
C8_InvalidConfigRejected ==
    ~ValidConfig => \/ pcP \in {"idle", "start"}
                    \/ pcP = "raised" /\ error = "InvalidConfigError"

====
